---------------------------- MODULE Spec2Model ----------------------------
(***************************************************************************)
(* A model of the resume extractor: the upload handlers of app.py and      *)
(* app1.py, the extension dispatch of resume_parser/extractor.py, and the  *)
(* text heuristics of resume_parser/nlp.py and app1.py.                    *)
(*                                                                         *)
(* Python strings are TLA+ strings; a character is a string of length 1,   *)
(* read with SubSeq.  Regular expressions are matched by a backtracking    *)
(* matcher over sequences of atoms, in the priority order of Python's re.  *)
(***************************************************************************)
EXTENDS Integers, Sequences, FiniteSets, TLC

VARIABLES
    reqs,       \* web: worker -> the request it is handling (a record)
    files,      \* web: the temporary files that exist on disk (their ids)
    served,     \* web: how many requests have been accepted so far
    input,      \* text functions: the arguments of the call
    output,     \* text functions: what the call returned (or its loop state)
    pc          \* text functions: position of the call

vars == <<reqs, files, served, input, output, pc>>
webVars == <<reqs, files, served>>
fnVars == <<input, output, pc>>

-----------------------------------------------------------------------------
(* Characters and strings *)

Ch(s, i) == SubSeq(s, i, i)

LowerAlpha == "abcdefghijklmnopqrstuvwxyz"
UpperAlpha == "ABCDEFGHIJKLMNOPQRSTUVWXYZ"
DigitChars == "0123456789"

CharsOf(s) == {Ch(s, i) : i \in 1..Len(s)}

LowerSet == CharsOf(LowerAlpha)
UpperSet == CharsOf(UpperAlpha)
DigitSet == CharsOf(DigitChars)
AlphaSet == LowerSet \cup UpperSet
WordSet == AlphaSet \cup DigitSet \cup {"_"}
\* str.strip(), str.split() and the regex class \s
SpaceSet == {" ", "\t", "\n", "\r", "\f"}
\* the line boundaries of str.splitlines()
LineBreakSet == {"\n", "\r", "\f"}

LowerCh(c) ==
    IF c \in UpperSet
    THEN Ch(LowerAlpha, CHOOSE i \in 1..26 : Ch(UpperAlpha, i) = c)
    ELSE c

\* str.lower(), by halves
RECURSIVE lower(_)
lower(s) ==
    IF Len(s) = 0 THEN ""
    ELSE IF Len(s) = 1 THEN LowerCh(s)
    ELSE lower(SubSeq(s, 1, Len(s) \div 2)) \o lower(SubSeq(s, Len(s) \div 2 + 1, Len(s)))

Min(S) == CHOOSE x \in S : \A y \in S : x <= y
Max(S) == CHOOSE x \in S : \A y \in S : y <= x

\* the first index from i on whose character is not in cs (Len(s) + 1 when
\* there is none), and the last index up to j
LStripFrom(s, cs, i) ==
    Min({k \in i..(Len(s) + 1) : k = Len(s) + 1 \/ Ch(s, k) \notin cs})

RStripFrom(s, cs, j) ==
    Max({k \in 0..j : k = 0 \/ Ch(s, k) \notin cs})

\* str.strip(chars)
StripChars(s, cs) ==
    LET i == LStripFrom(s, cs, 1)
        j == RStripFrom(s, cs, Len(s))
    IN  IF i > j THEN "" ELSE SubSeq(s, i, j)

strip(s) == StripChars(s, SpaceSet)

\* "sub in s"
Contains(s, sub) ==
    \E i \in 1..(Len(s) - Len(sub) + 1) : SubSeq(s, i, i + Len(sub) - 1) = sub

\* the index of the last occurrence of character c in s, 0 when there is none
\* (str.rfind, 1-based)
RFind(s, c) ==
    LET hits == {i \in 1..Len(s) : Ch(s, i) = c}
    IN  IF hits = {} THEN 0 ELSE Max(hits)

RECURSIVE JoinWith(_, _)
JoinWith(sep, seq) ==
    IF seq = <<>> THEN ""
    ELSE IF Len(seq) = 1 THEN seq[1]
    ELSE seq[1] \o sep \o JoinWith(sep, Tail(seq))

\* str.splitlines(): a line ends at \n, \r, \r\n or \f; no empty last line
LineEnds(s) ==
    {i \in 1..Len(s) :
        /\ Ch(s, i) \in LineBreakSet
        /\ ~(Ch(s, i) = "\n" /\ i > 1 /\ Ch(s, i - 1) = "\r")}

\* the index after the line break that starts at i
AfterBreak(s, i) ==
    IF Ch(s, i) = "\r" /\ i < Len(s) /\ Ch(s, i + 1) = "\n" THEN i + 2 ELSE i + 1

\* the k-th smallest element of a set of numbers
Kth(S, k) == CHOOSE x \in S : Cardinality({y \in S : y < x}) = k - 1

splitlines(s) ==
    LET ends == LineEnds(s)
        n == Cardinality(ends)
        startOf(k) == IF k = 1 THEN 1 ELSE AfterBreak(s, Kth(ends, k - 1))
        last == IF n = 0 THEN 1 ELSE AfterBreak(s, Kth(ends, n))
    IN  [k \in 1..(IF last > Len(s) THEN n ELSE n + 1) |->
            SubSeq(s, startOf(k), IF k <= n THEN Kth(ends, k) - 1 ELSE Len(s))]

\* str.split(): the maximal runs of non-whitespace
RECURSIVE SplitFrom(_, _)
SplitFrom(s, i) ==
    LET a == LStripFrom(s, SpaceSet, i)
    IN  IF a > Len(s) THEN <<>>
        ELSE LET b == LStripFrom(s, CharsOf(s) \ SpaceSet, a)
             IN  <<SubSeq(s, a, b - 1)>> \o SplitFrom(s, b)

split(s) == SplitFrom(s, 1)

SelectNonBlank(seq) == SelectSeq(seq, LAMBDA l : strip(l) # "")
MapStrip(seq) == [i \in 1..Len(seq) |-> strip(seq[i])]

-----------------------------------------------------------------------------
(* Regular expressions: a pattern is a sequence of alternatives tried in    *)
(* order at each start position; an alternative is a sequence of atoms.    *)

Inf == 999

Atom(cs, lo, hi) == [kind |-> "in", cs |-> cs, lo |-> lo, hi |-> hi]
NotAtom(cs, lo, hi) == [kind |-> "notin", cs |-> cs, lo |-> lo, hi |-> hi]
WordB == [kind |-> "wordb", cs |-> {}, lo |-> 0, hi |-> 0]
\* ^ and $ without re.MULTILINE ($ also matches before a final newline)
Bol == [kind |-> "bol", cs |-> {}, lo |-> 0, hi |-> 0]
Eol == [kind |-> "eol", cs |-> {}, lo |-> 0, hi |-> 0]
\* the end of the string (what re.fullmatch adds to a pattern)
EndOfString == [kind |-> "end", cs |-> {}, lo |-> 0, hi |-> 0]
One(c) == Atom({c}, 1, 1)
Lit(str) == [i \in 1..Len(str) |-> One(Ch(str, i))]
\* a literal under re.IGNORECASE
LitI(str) == [i \in 1..Len(str) |->
                Atom({c \in AlphaSet \cup {Ch(str, i)} :
                        LowerCh(c) = LowerCh(Ch(str, i))}, 1, 1)]

AtomTakes(a, c) == IF a.kind = "in" THEN c \in a.cs ELSE c \notin a.cs

IsWordAt(s, i) == i >= 1 /\ i <= Len(s) /\ Ch(s, i) \in WordSet

ZeroWidthHolds(a, s, p) ==
    CASE a.kind = "wordb" -> IsWordAt(s, p - 1) # IsWordAt(s, p)
      [] a.kind = "bol" -> p = 1
      [] a.kind = "eol" -> p = Len(s) + 1 \/ (p = Len(s) /\ Ch(s, p) = "\n")
      [] a.kind = "end" -> p = Len(s) + 1

\* how many characters from position p on the atom can take, at most a.hi
RunLength(a, s, p) ==
    LET stops(n) == n = a.hi \/ p + n > Len(s) \/ ~AtomTakes(a, Ch(s, p + n))
    IN  CHOOSE n \in 0..(Len(s) - p + 1) :
            stops(n) /\ \A m \in 0..(n - 1) : ~stops(m)

ReFail == <<0>>

\* The atoms k.. of alternative re matched from position p: the positions
\* after each atom, or ReFail.  Quantifiers are greedy and backtrack.
RECURSIVE ReFrom(_, _, _, _)
ReFrom(re, s, k, p) ==
    IF k > Len(re) THEN <<>>
    ELSE IF re[k].kind \in {"wordb", "bol", "eol", "end"}
         THEN IF ZeroWidthHolds(re[k], s, p)
              THEN LET r == ReFrom(re, s, k + 1, p)
                   IN  IF r = ReFail THEN ReFail ELSE <<p>> \o r
              ELSE ReFail
         ELSE LET longest == RunLength(re[k], s, p)
                  \* the counts, longest first, after which the rest matches
                  good == {n \in re[k].lo..longest :
                              ReFrom(re, s, k + 1, p + n) # ReFail}
              IN  IF good = {} THEN ReFail
                  ELSE <<p + Max(good)>> \o ReFrom(re, s, k + 1, p + Max(good))

NoMatch == [start |-> 0, ends |-> <<>>, alt |-> 0]

RECURSIVE ReAlts(_, _, _, _)
ReAlts(alts, s, p, a) ==
    IF a > Len(alts) THEN NoMatch
    ELSE LET r == ReFrom(alts[a], s, 1, p)
         IN  IF r = ReFail THEN ReAlts(alts, s, p, a + 1)
             ELSE [start |-> p, ends |-> r, alt |-> a]

\* re.match at position p
ReMatchAt(alts, s, p) == ReAlts(alts, s, p, 1)

\* re.search from position p on: the leftmost match
ReSearchFrom(alts, s, p) ==
    LET hits == {q \in p..(Len(s) + 1) : ReMatchAt(alts, s, q) # NoMatch}
    IN  IF hits = {} THEN NoMatch ELSE ReMatchAt(alts, s, Min(hits))

re_search(alts, s) == ReSearchFrom(alts, s, 1)

MatchEnd(m) == IF m.ends = <<>> THEN m.start ELSE m.ends[Len(m.ends)]
\* m.group(0)
Group0(m, s) == SubSeq(s, m.start, MatchEnd(m) - 1)
\* the text matched by atoms i..j of the alternative that matched
AtomSpan(m, s, i, j) ==
    SubSeq(s, IF i = 1 THEN m.start ELSE m.ends[i - 1], m.ends[j] - 1)

re_fullmatch(alts, s) ==
    \E a \in 1..Len(alts) :
        ReFrom(alts[a] \o <<EndOfString>>, s, 1, 1) # ReFail


-----------------------------------------------------------------------------
(* The upload handlers: app.py index and api_parse, app1.py index *)

MaxRequests == 2

Workers == {"w1", "w2"}
Endpoints == {"app.index", "app.api_parse", "app1.index"}

\* what a client may send as the file name ("" also stands for no file part)
FileNames ==
    {"", "cv.pdf", "cv.PDF", "n.text", "p.Jpeg", "cv.exe", ".pdf", "a.b/cv"}

\* paths a caller of parse_resume may pass to extract_text directly
DirectPaths == {"cv.DOCX", "n.txt", "p.PNG", "cv.rtf", "cv", ".txt"}

\* os.path.splitext: the extension starts at the last dot of the last path
\* component, unless that component has nothing but dots before it
splitext(p) ==
    LET sepIndex == RFind(p, "/")
        dotIndex == RFind(p, ".")
    IN  IF dotIndex > sepIndex
           /\ \E i \in (sepIndex + 1)..(dotIndex - 1) : Ch(p, i) # "."
        THEN <<SubSeq(p, 1, dotIndex - 1), SubSeq(p, dotIndex, Len(p))>>
        ELSE <<p, "">>

\* os.path.splitext(file.filename)[1].lower()
RequestExt(fn) == lower(splitext(fn)[2])

IndexAllowed == {".pdf", ".docx", ".txt", ".text", ".jpg", ".jpeg", ".png"}
ApiAllowed == {".pdf", ".docx", ".txt", ".text", ".jpg", ".jpeg", ".png"}
App1Allowed == {".pdf", ".docx", ".txt", ".text"}

Allowed(ep) ==
    CASE ep = "app.index" -> IndexAllowed
      [] ep = "app.api_parse" -> ApiAllowed
      [] ep = "app1.index" -> App1Allowed

\* a slip in the dispatch: every other extension is read as plain text
extract_text_falls_back(path) ==
    LET ext == lower(splitext(path)[2])
    IN  IF ext = ".pdf" THEN "extract_text_from_pdf"
        ELSE IF ext = ".docx" THEN "extract_text_from_docx"
        ELSE IF ext \in {".jpg", ".jpeg", ".png"} THEN "extract_text_from_image"
        ELSE "extract_text_from_txt"

\* resume_parser.extract_text: the extractor the path is routed to, or the
\* ValueError it raises
extract_text(path) ==
    LET ext == lower(splitext(path)[2])
    IN  IF ext = ".pdf" THEN "extract_text_from_pdf"
        ELSE IF ext = ".docx" THEN "extract_text_from_docx"
        ELSE IF ext \in {".txt", ".text"} THEN "extract_text_from_txt"
        ELSE IF ext \in {".jpg", ".jpeg", ".png"} THEN "extract_text_from_image"
        ELSE "ValueError"

\* app1.extract_text
app1_extract_text(path) ==
    LET ext == lower(splitext(path)[2])
    IN  IF ext = ".pdf" THEN "extract_text_from_pdf"
        ELSE IF ext = ".docx" THEN "extract_text_from_docx"
        ELSE IF ext \in {".txt", ".text"} THEN "extract_text_from_txt"
        ELSE "ValueError"

ExtractFor(ep, path) ==
    IF ep = "app1.index" THEN app1_extract_text(path) ELSE extract_text(path)

\* tempfile.NamedTemporaryFile(delete=False, suffix=ext).name: a name that
\* no existing file has
TmpName(n, ext) == "/tmp/tmp" \o Ch(DigitChars, n + 1) \o ext
TmpNumber(name) == CHOOSE n \in 0..9 : Ch(name, 9) = Ch(DigitChars, n + 1)
FreshTmpName(ext) ==
    LET used == {TmpNumber(f) : f \in files}
    IN  TmpName(CHOOSE n \in 0..9 : n \notin used /\ \A m \in 0..(n - 1) : m \in used,
                ext)

IdleRequest ==
    [pc |-> "idle", ep |-> "", fn |-> "", ext |-> "", tmp |-> "",
     bound |-> FALSE, extractor |-> "", resp |-> ""]

WebIdle == reqs = [w \in Workers |-> IdleRequest] /\ files = {} /\ served = 0
FnIdle == input = "" /\ output = "" /\ pc = "off"

InitWeb == WebIdle /\ FnIdle

\* a POST arrives at an endpoint and a worker takes it
Arrive(w, ep, fn) ==
    /\ reqs[w].pc \in {"idle", "done"}
    /\ served < MaxRequests
    /\ served' = served + 1
    /\ reqs' = [reqs EXCEPT ![w] =
                   [IdleRequest EXCEPT !.pc = "recv", !.ep = ep, !.fn = fn]]
    /\ UNCHANGED <<files, input, output, pc>>

\* the checks before the try block: the file part, then the extension
Validate(w) ==
    LET r == reqs[w]
        ext == RequestExt(r.fn)
    IN  /\ r.pc = "recv"
        /\ r.ep \in Endpoints
        /\ reqs' = [reqs EXCEPT ![w] =
                       IF r.fn = ""
                       THEN [r EXCEPT !.pc = "done", !.resp = "no file"]
                       ELSE IF ext \notin Allowed(r.ep)
                       THEN [r EXCEPT !.pc = "done", !.ext = ext,
                                      !.resp = "unsupported"]
                       ELSE [r EXCEPT !.pc = "mktemp", !.ext = ext]]
        /\ UNCHANGED <<files, served, input, output, pc>>

\* tempfile.NamedTemporaryFile(delete=False, suffix=ext)
CreateTemp(w) ==
    LET r == reqs[w]
        name == FreshTmpName(r.ext)
    IN  /\ r.pc = "mktemp"
        /\ files' = files \cup {name}
        /\ reqs' = [reqs EXCEPT ![w] =
                       [r EXCEPT !.pc = "save", !.tmp = name,
                                 \* app.py holds the name in tmp; app1.py binds
                                 \* temp_path only after file.save has returned
                                 !.bound = (r.ep # "app1.index")]]
        /\ UNCHANGED <<served, input, output, pc>>

\* file.save(tmp.name): returns, or raises
Save(w, ok) ==
    LET r == reqs[w]
    IN  /\ r.pc = "save"
        /\ reqs' = [reqs EXCEPT ![w] =
                       IF ok
                       THEN [r EXCEPT !.pc = "parse", !.bound = TRUE]
                       ELSE [r EXCEPT !.pc = "finally", !.resp = "error"]]
        /\ UNCHANGED <<files, served, input, output, pc>>

\* parse_resume(tmp.name) / resume_parser.parse(temp_path): extract_text
\* routes the path; the extractor or the parser then returns, or raises
Parse(w, ok) ==
    LET r == reqs[w]
        x == ExtractFor(r.ep, r.tmp)
    IN  /\ r.pc = "parse"
        /\ reqs' = [reqs EXCEPT ![w] =
                       [r EXCEPT !.pc = "finally", !.extractor = x,
                                 !.resp = IF ok /\ x # "ValueError"
                                          THEN "result" ELSE "error"]]
        /\ UNCHANGED <<files, served, input, output, pc>>

\* the finally block: os.remove of the name the handler holds; in app1.py
\* an unbound temp_path raises, and the handler swallows the exception
Cleanup(w) ==
    LET r == reqs[w]
    IN  /\ r.pc = "finally"
        /\ files' = IF r.bound THEN files \ {r.tmp} ELSE files
        /\ reqs' = [reqs EXCEPT ![w] = [r EXCEPT !.pc = "done"]]
        /\ UNCHANGED <<served, input, output, pc>>

\* parse_resume(path) called on a path of the caller's choosing: extract_text
\* routes it or raises
DirectParse(w, path) ==
    /\ reqs[w].pc \in {"idle", "done"}
    /\ served < MaxRequests
    /\ served' = served + 1
    /\ reqs' = [reqs EXCEPT ![w] =
                   [IdleRequest EXCEPT !.pc = "done", !.ep = "parse_resume",
                                       !.fn = path,
                                       !.extractor = extract_text(path)]]
    /\ UNCHANGED <<files, input, output, pc>>

NextWeb ==
    \/ \E w \in Workers, ep \in Endpoints, fn \in FileNames : Arrive(w, ep, fn)
    \/ \E w \in Workers : Validate(w)
    \/ \E w \in Workers : CreateTemp(w)
    \/ \E w \in Workers, ok \in BOOLEAN : Save(w, ok)
    \/ \E w \in Workers, ok \in BOOLEAN : Parse(w, ok)
    \/ \E w \in Workers : Cleanup(w)
    \/ \E w \in Workers, path \in DirectPaths : DirectParse(w, path)

SpecWeb == InitWeb /\ [][NextWeb]_vars

\* C1: for every upload whose extension passed the whitelist check, the
\* temporary file created for it no longer exists once the request is done,
\* whether save and parsing succeeded or raised.
C1_TempFileGone ==
    \A w \in Workers :
        (reqs[w].pc = "done" /\ reqs[w].ep \in Endpoints /\ reqs[w].fn # ""
            /\ RequestExt(reqs[w].fn) \in Allowed(reqs[w].ep))
        => reqs[w].tmp \notin files

SupportedExts == {".pdf", ".docx", ".txt", ".text", ".jpg", ".jpeg", ".png"}

ExtOf(path) == lower(splitext(path)[2])

\* C10: an upload whose file has an extension outside the supported set
\* (compared case-insensitively) is answered "unsupported" without ever
\* getting a temporary file or reaching extract_text, and no extractor is
\* ever invoked on a path whose extension is outside the set: extract_text
\* raises ValueError for it.
C10_UnsupportedRejectedFirst ==
    \A w \in Workers :
        LET r == reqs[w]
        IN  /\ (r.ep \in Endpoints /\ r.pc # "recv" /\ r.fn # ""
                    /\ ExtOf(r.fn) \notin SupportedExts)
               => (r.pc = "done" /\ r.resp = "unsupported" /\ r.tmp = ""
                      /\ r.extractor = "")
            /\ (r.ep \in Endpoints /\ r.extractor \notin {"", "ValueError"})
               => ExtOf(r.tmp) \in SupportedExts
            /\ (r.ep = "parse_resume" /\ ExtOf(r.fn) \notin SupportedExts)
               => r.extractor = "ValueError"

C10_Witness ==
    \E w, v \in Workers :
        /\ reqs[w].pc = "done" /\ reqs[w].fn = "cv.exe"
        /\ reqs[w].resp = "unsupported" /\ reqs[w].ep = "app.api_parse"
        /\ reqs[v].ep = "parse_resume" /\ reqs[v].fn = "cv.rtf"
        /\ reqs[v].extractor = "ValueError"
        /\ files = {}

-----------------------------------------------------------------------------
(* Python values: a str, None, or a reference to a list or dict of the heap *)

PyStr(s) == [type |-> "str", val |-> s, ref |-> 0]
PyNone == [type |-> "NoneType", val |-> "", ref |-> 0]
PyRef(id) == [type |-> "ref", val |-> "", ref |-> id]

\* bool(v) of a str or None
Truthy(v) == v.type = "str" /\ v.val # ""
\* a or b
PyOr(a, b) == IF Truthy(a) THEN a ELSE b

\* the characters the model's texts are written in, in code point order
AsciiTable ==
    "\t\n\f\r !\"#$%&'()*+,-./0123456789:;<=>?@ABCDEFGHIJKLMNOPQRSTUVWXYZ[\\]^_abcdefghijklmnopqrstuvwxyz{|}~"
Ord(c) == CHOOSE i \in 1..Len(AsciiTable) : Ch(AsciiTable, i) = c

\* a < b for str
RECURSIVE StrLess(_, _)
StrLess(a, b) ==
    IF b = "" THEN FALSE
    ELSE IF a = "" THEN TRUE
    ELSE IF Ch(a, 1) = Ch(b, 1)
         THEN StrLess(SubSeq(a, 2, Len(a)), SubSeq(b, 2, Len(b)))
         ELSE Ord(Ch(a, 1)) < Ord(Ch(b, 1))

-----------------------------------------------------------------------------
(* resume_parser/nlp.py: the field extractors *)

SKILLS_DB ==
    {"python", "java", "c", "c++", "c#", "javascript", "typescript",
     "html", "css", "react", "node.js", "express", "django", "flask",
     "sql", "mysql", "postgresql", "mongodb", "nosql", "oracle",
     "git", "github", "docker",
     "flutter", "dart",
     "machine learning", "deep learning", "nlp",
     "data analysis", "excel",
     "uipath", "rpa"}

\* [a-zA-Z0-9._%+-]+@[a-zA-Z0-9.-]+\.[a-zA-Z]{2,}
EMAIL_REGEX ==
    << << Atom(AlphaSet \cup DigitSet \cup {".", "_", "%", "+", "-"}, 1, Inf),
          One("@"),
          Atom(AlphaSet \cup DigitSet \cup {".", "-"}, 1, Inf),
          One("."),
          Atom(AlphaSet, 2, Inf) >> >>

\* \+?\d[\d\s\-]{8,}\d
NlpPhoneRe ==
    << << Atom({"+"}, 0, 1), Atom(DigitSet, 1, 1),
          Atom(DigitSet \cup SpaceSet \cup {"-"}, 8, Inf),
          Atom(DigitSet, 1, 1) >> >>

extract_email_or_none(text) ==
    LET m == re_search(EMAIL_REGEX, text)
    IN  IF m # NoMatch THEN PyStr(Group0(m, text)) ELSE PyNone

extract_email(text) ==
    LET m == re_search(EMAIL_REGEX, text)
    IN  IF m # NoMatch THEN PyStr(Group0(m, text)) ELSE PyStr("")

extract_phone(text) ==
    LET m == re_search(NlpPhoneRe, text)
    IN  IF m # NoMatch THEN PyStr(strip(Group0(m, text))) ELSE PyStr("")

HasDigit(s) == \E i \in 1..Len(s) : Ch(s, i) \in DigitSet

\* the for loop of extract_name over lines[:5], from line i on
RECURSIVE NameFrom(_, _)
NameFrom(lines, i) ==
    IF i > Len(lines) \/ i > 5 THEN ""
    ELSE IF Contains(lines[i], "@") THEN NameFrom(lines, i + 1)
    ELSE IF HasDigit(lines[i]) THEN NameFrom(lines, i + 1)
    ELSE IF 1 < Len(split(lines[i])) /\ Len(split(lines[i])) <= 4 THEN lines[i]
    ELSE NameFrom(lines, i + 1)

extract_name(text) ==
    PyStr(NameFrom(MapStrip(SelectNonBlank(splitlines(text))), 1))

\* the heading test as a substring test (re.search for re.fullmatch, no colon)
IsHeadingFor_substring(kw, line) == Contains(lower(line), lower(kw))

\* re.fullmatch(rf"{re.escape(kw)}[:]?", line, flags=re.IGNORECASE): the
\* line is the keyword, or the keyword and a colon, whatever the case
IsHeadingFor(kw, line) ==
    LET l == lower(line)
    IN  l = lower(kw) \/ l = lower(kw) \o ":"

\* str.isupper(): some cased character, and no lowercase one
isupper(s) ==
    /\ \E i \in 1..Len(s) : Ch(s, i) \in UpperSet
    /\ \A i \in 1..Len(s) : Ch(s, i) \notin LowerSet

\* ^[A-Za-z ]+[:]\s*$
ColonHeadingRe ==
    << << Bol, Atom(AlphaSet \cup {" "}, 1, Inf), One(":"),
          Atom(SpaceSet, 0, Inf), Eol >> >>

\* the test that ends a block in find_section_block
LooksLikeHeading(l) ==
    \/ (isupper(l) /\ Len(split(l)) <= 5)
    \/ ReMatchAt(ColonHeadingRe, l, 1) # NoMatch

\* the index of the first line that is one of the keywords, 0 when none is
SectionStart(lines, keywords) ==
    LET hits == {i \in 1..Len(lines) :
                    \E kw \in keywords : IsHeadingFor(kw, strip(lower(lines[i])))}
    IN  IF hits = {} THEN 0 ELSE CHOOSE i \in hits : \A j \in hits : i <= j

\* the index of the first probable heading after start, Len(lines) + 1 when
\* there is none
SectionEnd(lines, start) ==
    LET hits == {j \in (start + 1)..Len(lines) : LooksLikeHeading(strip(lines[j]))}
    IN  IF hits = {} THEN Len(lines) + 1 ELSE CHOOSE j \in hits : \A k \in hits : j <= k

find_section_block(text, keywords) ==
    LET lines == splitlines(text)
        start == SectionStart(lines, keywords)
    IN  IF start = 0 THEN ""
        ELSE strip(JoinWith("\n", SubSeq(lines, start + 1, SectionEnd(lines, start) - 1)))

\* the characters section_to_list strips that the model's texts can contain
BulletChars == {" ", "-", "\t"}

section_to_list(section_text) ==
    LET lines == splitlines(section_text)
        stripped == [i \in 1..Len(lines) |-> StripChars(lines[i], BulletChars)]
    IN  SelectSeq(stripped, LAMBDA l : l # "")

\* sorted(set, key=str.lower): Python's sort is stable, so entries with equal
\* keys come out in the set's iteration order, which is any order
SortedByLower(found) ==
    {q \in [1..Cardinality(found) -> found] :
        /\ \A i, j \in DOMAIN q : i # j => q[i] # q[j]
        /\ \A i, j \in DOMAIN q : i < j => ~StrLess(lower(q[j]), lower(q[i]))}

SkillsFound(text, skills_db) ==
    LET t == lower(text)
    IN  {skill \in skills_db : Contains(t, lower(skill))}

\* the same for a set in which no two entries have the same key
RECURSIVE SortedSeqByLower(_)
SortedSeqByLower(found) ==
    IF found = {} THEN <<>>
    ELSE LET m == CHOOSE x \in found :
                    \A y \in found : ~StrLess(lower(y), lower(x))
         IN  <<m>> \o SortedSeqByLower(found \ {m})

\* nlp.extract_skills: SKILLS_DB has no two entries with the same key
extract_skills(text) == SortedSeqByLower(SkillsFound(text, SKILLS_DB))

-----------------------------------------------------------------------------
(* resume_parser/schema.py: the heap holds the dicts and lists; an object   *)
(* is known by its index in the heap                                        *)

ScalarKeysHigh ==
    <<"highSchoolName", "highSchoolAddress", "highSchoolGpaOrPercentage",
      "highSchoolGpaScale", "highSchoolBoard", "highSchoolGraduationYear">>
ScalarKeysUg ==
    <<"ugCollegeName", "ugCollegeAddress", "ugCollegeGpaOrPercentage",
      "ugCollegeGpaScale", "ugUniversity", "ugGraduationYear", "ugDegree",
      "ugMajor">>
ScalarKeysPg ==
    <<"pgCollegeName", "pgCollegeAddress", "pgCollegeGpaOrPercentage",
      "pgCollegeGpaScale", "pgUniversity", "pgGraduationYear", "pgDegree",
      "pgMajor">>
\* the keys of BASE_RESUME_SCHEMA in the order they are written
SchemaKeys ==
    <<"name", "email", "phoneNumber">> \o ScalarKeysHigh \o ScalarKeysUg
        \o ScalarKeysPg
        \o <<"certifications", "extraCurricularActivities", "workExperience",
             "researchPublications", "testScores", "achievements", "skills">>
TestScoreKeys == <<"sat", "act", "gre", "gmat", "toefl", "ielts">>
ListKeys ==
    {"certifications", "extraCurricularActivities", "workExperience",
     "researchPublications", "achievements", "skills"}

Range(seq) == {seq[i] : i \in 1..Len(seq)}
ScalarKeys == Range(SchemaKeys) \ (ListKeys \cup {"testScores"})

DictObj(items) == [type |-> "dict", items |-> items, elems |-> <<>>]
ListObj(elems) == [type |-> "list", items |-> <<>>, elems |-> elems]

\* d[k] = v on the items of a dict: the key is added when it is new
SetItem(items, k, v) == (k :> v) @@ items

\* the module-level dict and the objects it holds
BASE_RESUME_SCHEMA == 1
BaseListId(k) ==
    CASE k = "certifications" -> 2
      [] k = "extraCurricularActivities" -> 3
      [] k = "workExperience" -> 4
      [] k = "researchPublications" -> 5
      [] k = "achievements" -> 6
      [] k = "skills" -> 7
BaseTestScoresId == 8

InitHeap ==
    << DictObj([k \in Range(SchemaKeys) |->
                   IF k \in ListKeys THEN PyRef(BaseListId(k))
                   ELSE IF k = "testScores" THEN PyRef(BaseTestScoresId)
                   ELSE PyStr("")]),
       ListObj(<<>>), ListObj(<<>>), ListObj(<<>>), ListObj(<<>>),
       ListObj(<<>>), ListObj(<<>>),
       DictObj([k \in Range(TestScoreKeys) |-> PyStr("")]) >>

\* copy.deepcopy of object id: every list and dict below it is copied too
\* (the elements of the lists are str, which are not copied)
RECURSIVE DeepCopy(_, _)
RECURSIVE DeepCopyItems(_, _, _)
DeepCopy(h, id) ==
    IF h[id].type = "list"
    THEN [heap |-> Append(h, h[id]), ref |-> Len(h) + 1]
    ELSE LET r == DeepCopyItems(h, h[id].items,
                                {k \in DOMAIN h[id].items : h[id].items[k].type = "ref"})
         IN  [heap |-> Append(r.heap, DictObj(r.items)), ref |-> Len(r.heap) + 1]

\* the values of the keys in todo replaced by copies
DeepCopyItems(h, items, todo) ==
    IF todo = {} THEN [heap |-> h, items |-> items]
    ELSE LET key == CHOOSE k \in todo : TRUE
             c == DeepCopy(h, items[key].ref)
         IN  DeepCopyItems(c.heap, SetItem(items, key, PyRef(c.ref)), todo \ {key})

\* dict(BASE_RESUME_SCHEMA): a new dict holding the same lists and the same
\* testScores dict
empty_resume_schema_shallow(h) ==
    [heap |-> Append(h, h[BASE_RESUME_SCHEMA]), ref |-> Len(h) + 1]

empty_resume_schema(h) == DeepCopy(h, BASE_RESUME_SCHEMA)

-----------------------------------------------------------------------------
(* resume_parser/nlp.py: education, test scores and the pipeline *)

\* \b\d{2,3}\.?(\d+)?\s*%
PercRe ==
    << << WordB, Atom(DigitSet, 2, 3), Atom({"."}, 0, 1), Atom(DigitSet, 0, Inf),
          Atom(SpaceSet, 0, Inf), One("%") >> >>
\* \b\d\.\d{1,2}\b
CgpaRe == << << WordB, Atom(DigitSet, 1, 1), One("."), Atom(DigitSet, 1, 2), WordB >> >>
\* \b(19|20)\d{2}\b
YearRe ==
    << <<WordB, One("1"), One("9"), Atom(DigitSet, 2, 2), WordB>>,
       <<WordB, One("2"), One("0"), Atom(DigitSet, 2, 2), WordB>> >>
\* \(([^)]+)\)
MajorRe == << << One("("), NotAtom({")"}, 1, Inf), One(")") >> >>

HighSchoolMarkers == {"10th", "x ", "ssc", "matric", "high school"}
UgMarkers == {"b.tech", "b.e", "bsc", "bca", "b.com", "bachelor"}
PgMarkers == {"m.tech", "m.e", "msc", "mca", "mba", "master"}

AnyIn(markers, l) == \E k \in markers : Contains(l, k)

\* the marks and the year of one line, written to the keys of its tier
SetMarksAndYear(schema, line, gpaKey, scaleKey, yearKey) ==
    LET perc == re_search(PercRe, line)
        cgpa == re_search(CgpaRe, line)
        year == re_search(YearRe, line)
        s1 == IF perc # NoMatch
              THEN SetItem(SetItem(schema, gpaKey, PyStr(Group0(perc, line))),
                           scaleKey, PyStr("percentage"))
              ELSE IF cgpa # NoMatch
              THEN SetItem(SetItem(schema, gpaKey, PyStr(Group0(cgpa, line))),
                           scaleKey, PyStr("cgpa"))
              ELSE schema
    IN  IF year # NoMatch
        THEN SetItem(s1, yearKey, PyStr(Group0(year, line)))
        ELSE s1

SetMajor(schema, line, majorKey) ==
    LET major == re_search(MajorRe, line)
    IN  IF major # NoMatch
        THEN SetItem(schema, majorKey, PyStr(AtomSpan(major, line, 2, 2)))
        ELSE schema

\* schema[key] = schema[key] or value
SetIfEmpty(schema, key, value) == SetItem(schema, key, PyOr(schema[key], PyStr(value)))

\* the branches with the undergraduate test moved before the high school test
TierOf_ug_first(line) ==
    LET l == lower(line)
    IN  IF AnyIn(UgMarkers, l) THEN "ug"
        ELSE IF AnyIn(HighSchoolMarkers, l) THEN "highSchool"
        ELSE IF AnyIn(PgMarkers, l) THEN "pg"
        ELSE "none"

\* which branch of the if / elif / elif a line takes
TierOf(line) ==
    LET l == lower(line)
    IN  IF AnyIn(HighSchoolMarkers, l) THEN "highSchool"
        ELSE IF AnyIn(UgMarkers, l) THEN "ug"
        ELSE IF AnyIn(PgMarkers, l) THEN "pg"
        ELSE "none"

\* the body of the for loop of parse_education: one line of the section
EducationLine(schema, line) ==
    CASE TierOf(line) = "highSchool" ->
            SetMarksAndYear(
                SetIfEmpty(schema, "highSchoolName", line),
                line, "highSchoolGpaOrPercentage", "highSchoolGpaScale",
                "highSchoolGraduationYear")
      [] TierOf(line) = "ug" ->
            SetMarksAndYear(
                SetMajor(SetIfEmpty(SetIfEmpty(schema, "ugCollegeName", line),
                                    "ugDegree", "Bachelor"),
                         line, "ugMajor"),
                line, "ugCollegeGpaOrPercentage", "ugCollegeGpaScale",
                "ugGraduationYear")
      [] TierOf(line) = "pg" ->
            SetMarksAndYear(
                SetMajor(SetIfEmpty(SetIfEmpty(schema, "pgCollegeName", line),
                                    "pgDegree", "Master"),
                         line, "pgMajor"),
                line, "pgCollegeGpaOrPercentage", "pgCollegeGpaScale",
                "pgGraduationYear")
      [] OTHER -> schema

\* the lines parse_education loops over
EducationLines(text) ==
    MapStrip(SelectNonBlank(splitlines(
        find_section_block(text, {"education", "academics", "academic details"}))))

RECURSIVE EducationFold(_, _, _)
EducationFold(schema, lines, i) ==
    IF i > Len(lines) THEN schema
    ELSE EducationFold(EducationLine(schema, lines[i]), lines, i + 1)

\* parse_education, on the items of the schema dict
parse_education(text, schema) == EducationFold(schema, EducationLines(text), 1)

\* keyword\s*[:\-]\s*(\d+), group 1
grab_score(lowerText, keyword) ==
    LET patt == << Lit(keyword) \o
                   << Atom(SpaceSet, 0, Inf), Atom({":", "-"}, 1, 1),
                      Atom(SpaceSet, 0, Inf), Atom(DigitSet, 1, Inf) >> >>
        m == re_search(patt, lowerText)
    IN  IF m # NoMatch
        THEN PyStr(AtomSpan(m, lowerText, Len(keyword) + 4, Len(keyword) + 4))
        ELSE PyStr("")

\* one line of parse_test_scores
SetScore(scores, lowerText, k) ==
    SetItem(scores, k, PyOr(grab_score(lowerText, k), scores[k]))

\* parse_test_scores, on the items of the testScores dict
parse_test_scores(text, scores) ==
    LET l == lower(text)
    IN  SetScore(SetScore(SetScore(SetScore(SetScore(SetScore(scores,
            l, "gre"), l, "gmat"), l, "sat"), l, "act"), l, "toefl"), l, "ielts")

\* the assignments of build_structured_data before the sub-parsers run
BasicItems(items, text, n) ==
    LET s1 == SetItem(items, "name", extract_name(text))
        s2 == SetItem(s1, "email", extract_email(text))
        s3 == SetItem(s2, "phoneNumber", extract_phone(text))
        s4 == SetItem(s3, "workExperience", PyRef(n + 1))
        s5 == SetItem(s4, "certifications", PyRef(n + 2))
        s6 == SetItem(s5, "extraCurricularActivities", PyRef(n + 3))
        s7 == SetItem(s6, "achievements", PyRef(n + 4))
        s8 == SetItem(s7, "researchPublications", PyRef(n + 5))
    IN  SetItem(s8, "skills", PyRef(n + 6))

\* the heap after the assignments of build_structured_data that come before
\* the sub-parsers; c is what empty_resume_schema returned
AssignFields(c, text) ==
    LET exp_block == find_section_block(text,
                        {"experience", "work experience", "professional experience"})
        cert_block == find_section_block(text, {"certifications", "certification"})
        extra_block == find_section_block(text,
                        {"extra curricular", "extracurricular", "activities"})
        ach_block == find_section_block(text, {"achievements", "accomplishments"})
        pubs_block == find_section_block(text,
                        {"publications", "research", "research publications"})
        \* each right-hand side is a new list
        h1 == c.heap \o << ListObj(section_to_list(exp_block)),
                           ListObj(section_to_list(cert_block)),
                           ListObj(section_to_list(extra_block)),
                           ListObj(section_to_list(ach_block)),
                           ListObj(section_to_list(pubs_block)),
                           ListObj(extract_skills(text)) >>
    IN  [h1 EXCEPT ![c.ref].items = BasicItems(@, text, Len(c.heap))]

\* parse_education(text, schema) on the heap
ParseEducationOn(h, id, text) == [h EXCEPT ![id].items = parse_education(text, @)]

\* parse_test_scores(text, schema) on the heap: schema["testScores"] is
\* written in place
ParseTestScoresOn(h, id, text) ==
    [h EXCEPT ![h[id].items["testScores"].ref].items = parse_test_scores(text, @)]

Only(S) == CHOOSE x \in S : TRUE

\* build_structured_data: the heap after the call and the dict it returns;
\* each statement works on the heap the statement before it left
build_structured_data(h, text) ==
    Only({ Only({ Only({ [heap |-> ParseTestScoresOn(h3, c.ref, text), ref |-> c.ref] :
                            h3 \in {ParseEducationOn(h2, c.ref, text)} }) :
                     h2 \in {AssignFields(c, text)} }) :
             c \in {empty_resume_schema(h)} })

\* the value of a heap object, with every reference followed
RECURSIVE Deref(_, _)
Deref(h, v) ==
    IF v.type # "ref" THEN v
    ELSE IF h[v.ref].type = "list" THEN [type |-> "list", val |-> h[v.ref].elems]
    ELSE [type |-> "dict",
          val |-> [k \in DOMAIN h[v.ref].items |-> Deref(h, h[v.ref].items[k])]]

-----------------------------------------------------------------------------
(* app1.py: the parsing helpers *)

\* re.findall: the matches from left to right, each search starting where
\* the match before it ended
RECURSIVE FindAllFrom(_, _, _)
FindAllFrom(alts, s, p) ==
    IF p > Len(s) + 1 THEN <<>>
    ELSE LET m == ReSearchFrom(alts, s, p)
         IN  IF m = NoMatch THEN <<>>
             ELSE <<m>> \o FindAllFrom(alts, s,
                               IF MatchEnd(m) = m.start THEN m.start + 1 ELSE MatchEnd(m))

re_findall(alts, s) == FindAllFrom(alts, s, 1)

PhoneSeparators == {"-", "."} \cup SpaceSet

\* (\+?\d{1,3}[-.\s]?)?(\d{3,5}[-.\s]?\d{3,5}[-.\s]?\d{3,5}): the optional
\* first group is tried first, then the pattern without it
PHONE_REGEX ==
    << << Atom({"+"}, 0, 1), Atom(DigitSet, 1, 3), Atom(PhoneSeparators, 0, 1),
          Atom(DigitSet, 3, 5), Atom(PhoneSeparators, 0, 1),
          Atom(DigitSet, 3, 5), Atom(PhoneSeparators, 0, 1),
          Atom(DigitSet, 3, 5) >>,
       << Atom(DigitSet, 3, 5), Atom(PhoneSeparators, 0, 1),
          Atom(DigitSet, 3, 5), Atom(PhoneSeparators, 0, 1),
          Atom(DigitSet, 3, 5) >> >>

\* (https?://[^\s]+|www\.[^\s]+)
URL_REGEX ==
    << Lit("http") \o <<Atom({"s"}, 0, 1)>> \o Lit("://") \o <<NotAtom(SpaceSet, 1, Inf)>>,
       Lit("www.") \o <<NotAtom(SpaceSet, 1, Inf)>> >>

\* len(re.sub(r"\D", "", candidate))
DigitCount(s) == Cardinality({i \in 1..Len(s) : Ch(s, i) \in DigitSet})

\* "".join(match) of a findall tuple: the two groups make up the whole match
app1_extract_phone(text) ==
    LET matches == re_findall(PHONE_REGEX, text)
        candidate(i) == Group0(matches[i], text)
        accepted == {i \in 1..Len(matches) :
                        10 <= DigitCount(candidate(i)) /\ DigitCount(candidate(i)) <= 13}
    IN  IF accepted = {} THEN PyNone ELSE PyStr(strip(candidate(Min(accepted))))

\* the for loop of guess_name over lines[:8], from line i on
RECURSIVE GuessFrom(_, _)
GuessFrom(lines, i) ==
    IF i > Len(lines) \/ i > 8 THEN PyNone
    ELSE LET line_clean == strip(lines[i])
             words == split(line_clean)
         IN  IF line_clean = "" THEN GuessFrom(lines, i + 1)
             ELSE IF re_search(EMAIL_REGEX, line_clean) # NoMatch THEN GuessFrom(lines, i + 1)
             ELSE IF re_search(URL_REGEX, line_clean) # NoMatch THEN GuessFrom(lines, i + 1)
             ELSE IF re_search(PHONE_REGEX, line_clean) # NoMatch THEN GuessFrom(lines, i + 1)
             ELSE IF /\ 1 < Len(words) /\ Len(words) <= 4
                     /\ \A k \in 1..Len(words) :
                           \E c \in 1..Len(words[k]) : Ch(words[k], c) \in AlphaSet
                  THEN PyStr(line_clean)
                  ELSE GuessFrom(lines, i + 1)

\* the loop over lines[:5] instead of lines[:8]
guess_name_first_five(lines) == GuessFrom(SubSeq(lines, 1, Min({5, Len(lines)})), 1)

guess_name(lines) == GuessFrom(lines, 1)

split_lines(text) == MapStrip(SelectNonBlank(splitlines(text)))

\* app1.extract_skills: the orders sorted() can give the entries found
app1_extract_skills(text, skills_db) == SortedByLower(SkillsFound(text, skills_db))

\* the dict in its iteration order
SECTION_HEADERS ==
    << [name |-> "summary", keywords |-> <<"summary", "about me", "profile">>],
       [name |-> "education",
        keywords |-> <<"education", "academic", "qualification", "academics">>],
       [name |-> "experience",
        keywords |-> <<"experience", "work experience", "professional experience",
                       "employment">>],
       [name |-> "projects", keywords |-> <<"project", "projects">>],
       [name |-> "skills", keywords |-> <<"skills", "technical skills", "skills & tools">>] >>

SectionNames == {SECTION_HEADERS[c].name : c \in DOMAIN SECTION_HEADERS}

\* index_to_section[i] after the loops over one line, for a keyword table
\* headers: every matching category assigns it, so the last one in
\* iteration order stays ("" when no category matches)
SectionOfLineIn(headers, raw_line) ==
    LET line == lower(strip(raw_line))
        hits == {c \in DOMAIN headers :
                    \E k \in DOMAIN headers[c].keywords :
                        IsHeadingFor(headers[c].keywords[k], line)}
    IN  IF hits = {} THEN "" ELSE headers[Max(hits)].name

SectionOfLine(raw_line) == SectionOfLineIn(SECTION_HEADERS, raw_line)

\* sorted(index_to_section.keys()) as a sequence of line numbers (from 1)
SortedIndices(lines) ==
    LET heads == {i \in 1..Len(lines) : SectionOfLine(lines[i]) # ""}
    IN  [k \in 1..Cardinality(heads) |->
            CHOOSE i \in heads : Cardinality({j \in heads : j < i}) = k - 1]

\* the lines of the heading at sorted_indices[idx], one line too many
SectionContent_through_next(lines, sorted_indices, idx) ==
    LET end_line == IF idx + 1 <= Len(sorted_indices)
                    THEN sorted_indices[idx + 1] ELSE Len(lines)
    IN  strip(JoinWith("\n", SubSeq(lines, sorted_indices[idx] + 1, end_line)))

\* content of the heading at sorted_indices[idx]
SectionContent(lines, sorted_indices, idx) ==
    LET end_line == IF idx + 1 <= Len(sorted_indices)
                    THEN sorted_indices[idx + 1] - 1 ELSE Len(lines)
    IN  strip(JoinWith("\n", SubSeq(lines, sorted_indices[idx] + 1, end_line)))

\* the second for loop of find_sections from idx on
RECURSIVE SectionsFold(_, _, _, _)
SectionsFold(lines, sorted_indices, idx, sections_text) ==
    IF idx > Len(sorted_indices) THEN sections_text
    ELSE LET section_name == SectionOfLine(lines[sorted_indices[idx]])
             content == SectionContent(lines, sorted_indices, idx)
         IN  SectionsFold(lines, sorted_indices, idx + 1,
                [sections_text EXCEPT ![section_name] =
                    IF @ # "" THEN @ \o "\n" \o content ELSE content])

find_sections(text) ==
    LET lines == splitlines(text)
        sorted_indices == SortedIndices(lines)
        sections_text == [name \in SectionNames |-> ""]
    IN  IF sorted_indices = <<>>
        THEN [sections_text EXCEPT !["summary"] = text]
        ELSE SectionsFold(lines, sorted_indices, 1, sections_text)

-----------------------------------------------------------------------------
(* Texts: up to n lines of a vocabulary, joined by newlines *)

SeqsUpTo(S, n) == UNION {[1..k -> S] : k \in 0..n}
TextsOf(S, n) == {JoinWith("\n", q) : q \in SeqsUpTo(S, n)}

-----------------------------------------------------------------------------
(* build_structured_data on one text *)

MaxBuildLines == 2

BuildVocabulary ==
    {"Al Bo", "a@b.cd", "education", "bsc (ai) 2021 8.5", "experience",
     "- dev x", "gre: 320 sql", "98765 43210"}

InitBuild ==
    /\ WebIdle
    /\ input \in TextsOf(BuildVocabulary, MaxBuildLines)
    /\ output = [heap |-> InitHeap, ref |-> 0]
    /\ pc = "build"

BuildCall ==
    /\ pc = "build"
    /\ output' = build_structured_data(InitHeap, input)
    /\ pc' = "built"
    /\ UNCHANGED <<input, reqs, files, served>>

NextBuild == BuildCall

SpecBuild == InitBuild /\ [][NextBuild]_vars

\* C2: the record build_structured_data returns has exactly the keys of
\* BASE_RESUME_SCHEMA, its testScores has exactly the six score keys, every
\* scalar field and every score is a str and every list field is a list; for
\* a text in which nothing is found every str is empty and every list is empty.
C2_RecordShape ==
    pc = "built" =>
        LET h == output.heap
            rec == h[output.ref]
            scores == h[rec.items["testScores"].ref]
        IN  /\ rec.type = "dict"
            /\ DOMAIN rec.items = DOMAIN InitHeap[BASE_RESUME_SCHEMA].items
            /\ DOMAIN rec.items = ScalarKeys \cup ListKeys \cup {"testScores"}
            /\ \A k \in ScalarKeys : rec.items[k].type = "str"
            /\ \A k \in ListKeys :
                /\ rec.items[k].type = "ref"
                /\ h[rec.items[k].ref].type = "list"
            /\ rec.items["testScores"].type = "ref"
            /\ scores.type = "dict"
            /\ DOMAIN scores.items = {"sat", "act", "gre", "gmat", "toefl", "ielts"}
            /\ \A k \in DOMAIN scores.items : scores.items[k].type = "str"
            /\ input = "" =>
                /\ \A k \in ScalarKeys : rec.items[k] = PyStr("")
                /\ \A k \in ListKeys : h[rec.items[k].ref].elems = <<>>
                /\ \A k \in DOMAIN scores.items : scores.items[k] = PyStr("")

C2_Witness ==
    /\ pc = "built"
    /\ input = "education\nbsc (ai) 2021 8.5"
    /\ output.heap[output.ref].items["ugMajor"] = PyStr("ai")
    /\ output.heap[output.ref].items["email"] = PyStr("")
    /\ output.heap[output.heap[output.ref].items["skills"].ref].elems = <<"c">>

-----------------------------------------------------------------------------
(* A process that calls build_structured_data again and again *)

MaxCalls == 3

SchemaTexts ==
    {"", "gre: 320", "education\nbsc (ai) 2021", "experience\n- dev x", "a@b.cd sat-9"}

InitSchema ==
    /\ WebIdle
    /\ input = <<>>
    /\ output = [heap |-> InitHeap, results |-> <<>>, values |-> <<>>]
    /\ pc = "calls"

\* one more call: input is the texts parsed so far, results the dicts the
\* calls returned, values what each dict held when it was returned
SchemaCall(text) ==
    /\ pc = "calls"
    /\ Len(input) < MaxCalls
    /\ \E r \in {build_structured_data(output.heap, text)} :
          output' = [heap |-> r.heap,
                     results |-> Append(output.results, r.ref),
                     values |-> Append(output.values, Deref(r.heap, PyRef(r.ref)))]
    /\ input' = Append(input, text)
    /\ UNCHANGED <<pc, reqs, files, served>>

NextSchema == \E text \in SchemaTexts : SchemaCall(text)

SpecSchema == InitSchema /\ [][NextSchema]_vars

\* the objects reachable from object id
RECURSIVE Reach(_, _)
Reach(h, id) ==
    {id} \cup UNION {Reach(h, h[id].items[k].ref) :
                        k \in {x \in DOMAIN h[id].items : h[id].items[x].type = "ref"}}

BaseObjects == Reach(InitHeap, BASE_RESUME_SCHEMA)

\* C3: after any sequence of calls BASE_RESUME_SCHEMA, its testScores and its
\* lists are as they were (all empty); no returned record shares a list or a
\* dict with the base schema or with another returned record; a returned
\* record is not changed by later calls, and two calls on the same text
\* return equal records whatever was parsed in between.
C3_FreshRecordPerCall ==
    pc = "calls" =>
        LET h == output.heap
            n == Len(output.results)
        IN  /\ \A id \in BaseObjects : h[id] = InitHeap[id]
            /\ \A k \in ScalarKeys : h[BASE_RESUME_SCHEMA].items[k] = PyStr("")
            /\ \A k \in ListKeys : h[h[BASE_RESUME_SCHEMA].items[k].ref].elems = <<>>
            /\ \A k \in Range(TestScoreKeys) :
                 h[h[BASE_RESUME_SCHEMA].items["testScores"].ref].items[k] = PyStr("")
            /\ \A i \in 1..n : Reach(h, output.results[i]) \cap BaseObjects = {}
            /\ \A i, j \in 1..n :
                 i # j => Reach(h, output.results[i]) \cap Reach(h, output.results[j]) = {}
            /\ \A i \in 1..n : Deref(h, PyRef(output.results[i])) = output.values[i]
            /\ \A i, j \in 1..n : input[i] = input[j] => output.values[i] = output.values[j]

C3_Witness ==
    /\ pc = "calls"
    /\ Len(input) = 3
    /\ input[1] = "" /\ input[2] = "gre: 320" /\ input[3] = ""
    /\ output.values[2].val["testScores"].val["gre"] = PyStr("320")
    /\ output.values[3].val["testScores"].val["gre"] = PyStr("")

-----------------------------------------------------------------------------
(* parse_education, one line of the education section at a time *)

MaxEduLines == 3

EduVocabulary ==
    {"bsc (ai) 2020", "bca (ml) 8.5 2021", "10th 85%", "ssc 9.1 2015",
     "mba (fin)", "notes", "ssc bsc (cs) 70%", "b.e m.e 2019"}

EduTexts ==
    {"", "notes"} \cup
    {"education\n" \o t : t \in TextsOf(EduVocabulary, MaxEduLines)}

InitEdu ==
    /\ WebIdle
    /\ input \in EduTexts
    /\ output = [schema |-> InitHeap[BASE_RESUME_SCHEMA].items, lines |-> <<>>, i |-> 0]
    /\ pc = "edu_start"

\* find the education block; return at once when there is none
EduStart ==
    /\ pc = "edu_start"
    /\ LET block == find_section_block(input, {"education", "academics", "academic details"})
       IN  IF block = ""
           THEN /\ pc' = "edu_done"
                /\ UNCHANGED output
           ELSE /\ pc' = "edu_loop"
                /\ output' = [output EXCEPT !.lines = EducationLines(input), !.i = 1]
    /\ UNCHANGED <<input, reqs, files, served>>

\* one iteration of the for loop
EduStep ==
    /\ pc = "edu_loop"
    /\ output.i <= Len(output.lines)
    /\ output' = [output EXCEPT !.schema = EducationLine(@, output.lines[output.i]),
                                !.i = @ + 1]
    /\ UNCHANGED <<pc, input, reqs, files, served>>

\* the loop is over
EduReturn ==
    /\ pc = "edu_loop"
    /\ output.i > Len(output.lines)
    /\ pc' = "edu_done"
    /\ UNCHANGED <<output, input, reqs, files, served>>

NextEdu == EduStart \/ EduStep \/ EduReturn

SpecEdu == InitEdu /\ [][NextEdu]_vars

TierKeys(tier) ==
    CASE tier = "highSchool" ->
            {"highSchoolName", "highSchoolGpaOrPercentage", "highSchoolGpaScale",
             "highSchoolGraduationYear"}
      [] tier = "ug" ->
            {"ugCollegeName", "ugDegree", "ugMajor", "ugCollegeGpaOrPercentage",
             "ugCollegeGpaScale", "ugGraduationYear"}
      [] tier = "pg" ->
            {"pgCollegeName", "pgDegree", "pgMajor", "pgCollegeGpaOrPercentage",
             "pgCollegeGpaScale", "pgGraduationYear"}
      [] OTHER -> {}

\* C4: in parse_education a field of a tier (name, degree, major, grade
\* value, grade scale, graduation year) that a line has set to a non-empty
\* value is not changed by any later line of the section.
C4_FirstValueKept ==
    [][pc = "edu_loop" =>
         \A tier \in {"highSchool", "ug", "pg"} : \A k \in TierKeys(tier) :
            output.schema[k].val # "" => output'.schema[k] = output.schema[k]]_vars

\* the tiers whose markers a line contains, and their priorities
TiersIn(line) ==
    {t \in {"highSchool", "ug", "pg"} :
        \E k \in (CASE t = "highSchool" -> HighSchoolMarkers
                    [] t = "ug" -> UgMarkers
                    [] t = "pg" -> PgMarkers) : Contains(lower(line), k)}

TierPriority(t) == CASE t = "highSchool" -> 1 [] t = "ug" -> 2 [] t = "pg" -> 3

NameKeyOf(t) ==
    CASE t = "highSchool" -> "highSchoolName" [] t = "ug" -> "ugCollegeName"
      [] t = "pg" -> "pgCollegeName"

\* C11: a step of the loop of parse_education changes only fields of one
\* tier, the one of highest priority (secondary, then undergraduate, then
\* postgraduate) among the tiers whose markers the line contains, and sets
\* that tier's name if it was empty; a line without marker changes nothing.
C11_OneTierByPriority ==
    [][(pc = "edu_loop" /\ output'.i = output.i + 1) =>
         LET line == output.lines[output.i]
             tiers == TiersIn(line)
         IN  IF tiers = {} THEN output'.schema = output.schema
             ELSE LET t == CHOOSE x \in tiers :
                               \A y \in tiers : TierPriority(x) <= TierPriority(y)
                  IN  /\ \A k \in DOMAIN output.schema :
                            k \notin TierKeys(t) => output'.schema[k] = output.schema[k]
                      /\ output'.schema[NameKeyOf(t)].val # ""
                      /\ output.schema[NameKeyOf(t)].val = "" =>
                            output'.schema[NameKeyOf(t)].val = line]_vars

C11_Witness ==
    /\ pc = "edu_loop"
    /\ output.i = 3
    /\ output.lines = <<"b.e m.e 2019", "ssc bsc (cs) 70%">>
    /\ output.schema["ugGraduationYear"] = PyStr("2019")
    /\ output.schema["pgCollegeName"] = PyStr("")
    /\ output.schema["highSchoolGpaOrPercentage"] = PyStr("70%")
    /\ output.schema["ugMajor"] = PyStr("")

-----------------------------------------------------------------------------
(* find_sections on one text *)

MaxSectionLines == 3

SectionVocabulary ==
    {"Education", "skills:", " x y ", "", "a", "EDUCATION", "my skills"}

InitSections ==
    /\ WebIdle
    /\ input \in TextsOf(SectionVocabulary, MaxSectionLines)
    /\ output = ""
    /\ pc = "sections"

SectionsCall ==
    /\ pc = "sections"
    /\ output' = find_sections(input)
    /\ pc' = "sectioned"
    /\ UNCHANGED <<input, reqs, files, served>>

NextSections == SectionsCall

SpecSections == InitSections /\ [][NextSections]_vars

\* what the claims about find_sections call a recognized heading: a line
\* that, trimmed and lowercased, is a keyword or a keyword and a colon
HeadingWords ==
    UNION {Range(SECTION_HEADERS[c].keywords) : c \in DOMAIN SECTION_HEADERS}

CategoryOfWord(w) ==
    LET c == CHOOSE c \in DOMAIN SECTION_HEADERS : w \in Range(SECTION_HEADERS[c].keywords)
    IN  SECTION_HEADERS[c].name

HeadingWordOf(line) ==
    LET l == lower(strip(line))
        ws == {w \in HeadingWords : l = w \/ l = w \o ":"}
    IN  IF ws = {} THEN "" ELSE CHOOSE w \in ws : TRUE

RecognizedHeadings(lines) == {i \in 1..Len(lines) : HeadingWordOf(lines[i]) # ""}

\* the lines after heading i up to the next heading or the end of the text
LinesBelow(lines, i) ==
    LET later == {j \in RecognizedHeadings(lines) : j > i}
    IN  SubSeq(lines, i + 1, IF later = {} THEN Len(lines) ELSE Min(later) - 1)

NoHeadingInBodies ==
    \A c \in SectionNames :
        \A k \in 1..Len(splitlines(output[c])) :
            HeadingWordOf(splitlines(output[c])[k]) = ""

\* C5 as stated: with at least one recognized heading, the body of a heading
\* is exactly the lines below it up to the next heading, joined by newlines
\* (seen in a category that has one heading); no heading line is in a body;
\* a category without heading has the empty body.
C5_BodyIsLinesBelow ==
    (pc = "sectioned" /\ RecognizedHeadings(splitlines(input)) # {}) =>
        LET lines == splitlines(input)
            headingsOf(c) == {i \in RecognizedHeadings(lines) :
                        CategoryOfWord(HeadingWordOf(lines[i])) = c}
        IN  /\ DOMAIN output = SectionNames
            /\ \A c \in SectionNames :
                /\ headingsOf(c) = {} => output[c] = ""
                /\ \A i \in headingsOf(c) :
                     headingsOf(c) = {i} => output[c] = JoinWith("\n", LinesBelow(lines, i))
            /\ NoHeadingInBodies

\* C5: with at least one recognized heading, the body of a heading is the
\* lines below it up to the next heading, joined by newlines, with the
\* whitespace at both ends of the joined text removed (seen in a category
\* that has one heading); no heading line is in a body; a category without
\* heading has the empty body.
C5_BodyIsLinesBelowTrimmed ==
    (pc = "sectioned" /\ RecognizedHeadings(splitlines(input)) # {}) =>
        LET lines == splitlines(input)
            headingsOf(c) == {i \in RecognizedHeadings(lines) :
                        CategoryOfWord(HeadingWordOf(lines[i])) = c}
        IN  /\ DOMAIN output = SectionNames
            /\ \A c \in SectionNames :
                /\ headingsOf(c) = {} => output[c] = ""
                /\ \A i \in headingsOf(c) :
                     headingsOf(c) = {i} =>
                        output[c] = StripChars(JoinWith("\n", LinesBelow(lines, i)), SpaceSet)
            /\ NoHeadingInBodies

C5_Witness ==
    /\ pc = "sectioned"
    /\ input = "Education\n x y \nskills:"
    /\ output["education"] = "x y"
    /\ output["skills"] = ""
    /\ output["summary"] = ""

\* C6: when no line of the text is a recognized heading, find_sections
\* returns all five categories, summary is the input text character for
\* character and every other category is the empty string.
C6_NoHeadingWholeTextIsSummary ==
    (pc = "sectioned" /\ RecognizedHeadings(splitlines(input)) = {}) =>
        /\ DOMAIN output = {"summary", "education", "experience", "projects", "skills"}
        /\ output["summary"] = input
        /\ \A c \in DOMAIN output : c # "summary" => output[c] = ""

C6_Witness ==
    /\ pc = "sectioned"
    /\ input = " x y \n\nmy skills"
    /\ output["summary"] = " x y \n\nmy skills"
    /\ output["skills"] = ""

\* the headings of category c in document order
HeadingsOfCategory(lines, c) ==
    LET hs == {i \in RecognizedHeadings(lines) :
                  CategoryOfWord(HeadingWordOf(lines[i])) = c}
    IN  [k \in 1..Cardinality(hs) |->
            CHOOSE i \in hs : Cardinality({j \in hs : j < i}) = k - 1]

\* C12: when a category has more than one heading line, its body is the
\* (trimmed) bodies of those headings in document order with a newline
\* between each two consecutive bodies.
C12_DuplicateBodiesJoined ==
    pc = "sectioned" =>
        LET lines == splitlines(input)
        IN  \A c \in SectionNames :
                LET hs == HeadingsOfCategory(lines, c)
                IN  Len(hs) > 1 =>
                        output[c] =
                            JoinWith("\n",
                                [k \in 1..Len(hs) |->
                                    StripChars(JoinWith("\n", LinesBelow(lines, hs[k])),
                                               SpaceSet)])

-----------------------------------------------------------------------------
(* the two phone extractors on one text *)

MaxPhoneParts == 2

PhoneVocabulary ==
    {"2020 - 2021", "98765 43210", "+91 98765-43210", "12345", "call",
     "1234567890123456", "044-2345", "99.88.77"}

InitPhone ==
    /\ WebIdle
    /\ input \in TextsOf(PhoneVocabulary, MaxPhoneParts)
    /\ output = ""
    /\ pc = "phone"

PhoneCall ==
    /\ pc = "phone"
    /\ output' = [nlp |-> extract_phone(input), app1 |-> app1_extract_phone(input)]
    /\ pc' = "phoned"
    /\ UNCHANGED <<input, reqs, files, served>>

NextPhone == PhoneCall

SpecPhone == InitPhone /\ [][NextPhone]_vars

\* the first of the candidates with 10 to 13 digits, trimmed; "" without one
FirstWithTenToThirteenDigits(pattern, text) ==
    LET ms == re_findall(pattern, text)
        ok == {i \in 1..Len(ms) : DigitCount(Group0(ms[i], text)) \in 10..13}
    IN  IF ok = {} THEN "" ELSE strip(Group0(ms[Min(ok)], text))

\* C7: each phone extractor returns a non-empty result only for a candidate
\* with 10 to 13 digits, namely the first such match of its pattern in the
\* text, trimmed, and an empty result when no candidate has 10 to 13 digits.
C7_PhoneHasTenToThirteenDigits ==
    pc = "phoned" =>
        /\ Truthy(output.nlp) => DigitCount(output.nlp.val) \in 10..13
        /\ Truthy(output.app1) => DigitCount(output.app1.val) \in 10..13
        /\ output.nlp.val = FirstWithTenToThirteenDigits(NlpPhoneRe, input)
        /\ output.app1.val = FirstWithTenToThirteenDigits(PHONE_REGEX, input)

-----------------------------------------------------------------------------
(* the two name guessers on one text *)

MaxPad == 8
MaxNameTail == 2

NameVocabulary == {"Al Bo", "www.x.io home", ">> --", "a@b x", "solo", "a b c d e"}

\* n lines that neither guesser takes for a name, then the tail
NameTexts ==
    {JoinWith("\n", [i \in 1..n |-> IF i = 2 THEN "" ELSE "7"] \o tail) :
        n \in 0..MaxPad, tail \in SeqsUpTo(NameVocabulary, MaxNameTail)}

InitName ==
    /\ WebIdle
    /\ input \in NameTexts
    /\ output = ""
    /\ pc = "name"

NameCall ==
    /\ pc = "name"
    /\ output' = [nlp |-> extract_name(input), app1 |-> guess_name(split_lines(input))]
    /\ pc' = "named"
    /\ UNCHANGED <<input, reqs, files, served>>

NextName == NameCall

SpecName == InitName /\ [][NextName]_vars

NonBlankLines(text) ==
    LET ls == SelectSeq(splitlines(text), LAMBDA l : StripChars(l, SpaceSet) # "")
    IN  [i \in 1..Len(ls) |-> StripChars(ls[i], SpaceSet)]

\* the first of the first limit lines that Accepts takes, "" without one
FirstAccepted(lines, limit, Accepts(_)) ==
    LET ok == {i \in 1..Min({limit, Len(lines)}) : Accepts(lines[i])}
    IN  IF ok = {} THEN "" ELSE lines[Min(ok)]

TwoToFourWords(l) == Len(split(l)) \in 2..4

EveryWordHasLetter(l) ==
    \A k \in 1..Len(split(l)) : CharsOf(split(l)[k]) \cap AlphaSet # {}

HasEmail(l) == re_search(EMAIL_REGEX, l) # NoMatch
HasUrl(l) == re_search(URL_REGEX, l) # NoMatch
HasPhoneLike(l) == re_search(PHONE_REGEX, l) # NoMatch

ClaimedAccepts(l) ==
    ~HasEmail(l) /\ ~HasUrl(l) /\ ~HasPhoneLike(l) /\ TwoToFourWords(l) /\ EveryWordHasLetter(l)

ClaimedAcceptsStricter(l) ==
    ~HasEmail(l) /\ ~HasUrl(l) /\ ~HasDigit(l) /\ TwoToFourWords(l) /\ EveryWordHasLetter(l)

NlpAccepts(l) == ~Contains(l, "@") /\ ~HasDigit(l) /\ TwoToFourWords(l)

\* C8 as stated: each name guesser returns the first of the first 8 non-blank
\* lines that has no email, no URL and no phone-like match (no digit in
\* extract_name), has 2 to 4 words and a letter in every word, and an empty
\* result when there is no such line.
C8_FirstOfEightLines ==
    pc = "named" =>
        /\ output.app1.val = FirstAccepted(NonBlankLines(input), 8, ClaimedAccepts)
        /\ output.nlp.val = FirstAccepted(NonBlankLines(input), 8, ClaimedAcceptsStricter)

\* C8: guess_name returns the first of the first 8 non-blank lines that has
\* no email, no URL and no phone-like match, has 2 to 4 words and a letter in
\* every word; extract_name returns the first of the first 5 non-blank lines
\* that has no "@" and no digit and has 2 to 4 words; each returns an empty
\* result (None, "") when there is no such line.
C8_FirstOfEightOrFiveLines ==
    pc = "named" =>
        /\ output.app1.val = FirstAccepted(NonBlankLines(input), 8, ClaimedAccepts)
        /\ output.app1.type = (IF output.app1.val = "" THEN "NoneType" ELSE "str")
        /\ output.nlp = PyStr(FirstAccepted(NonBlankLines(input), 5, NlpAccepts))

C8_Witness ==
    /\ pc = "named"
    /\ input = "7\n\n7\n7\n7\n7\n7\n7\nAl Bo"
    /\ output.app1 = PyStr("Al Bo")
    /\ output.nlp = PyStr("")

-----------------------------------------------------------------------------
(* the two skill extractors on one text and one vocabulary *)

MaxSkillWords == 2

SkillWords == {"sql", "C", "git", "x"}

SkillPool == {"SQL", "sql", "c", "Git", "c++"}

SkillTexts ==
    {JoinWith(" ", q) : q \in SeqsUpTo(SkillWords, MaxSkillWords)}

InitSkills ==
    /\ WebIdle
    /\ input \in [text : SkillTexts, skills_db : SUBSET SkillPool]
    /\ output = ""
    /\ pc = "skills"

\* sorted() gives one of the orders the equal keys allow
SkillsCall(app1_skills) ==
    /\ pc = "skills"
    /\ output' = [nlp |-> extract_skills(input.text), app1 |-> app1_skills]
    /\ pc' = "skilled"
    /\ UNCHANGED <<input, reqs, files, served>>

NextSkills ==
    \E q \in app1_extract_skills(input.text, input.skills_db) : SkillsCall(q)

SpecSkills == InitSkills /\ [][NextSkills]_vars

\* a list of entries of the vocabulary that occur in the text, one for each
\* lowercase form that occurs, in ascending order of the lowercase forms
ExactUniqueSorted(list, text, vocabulary) ==
    LET occurring == {v \in vocabulary : Contains(lower(text), lower(v))}
    IN  /\ Range(list) \subseteq occurring
        /\ {lower(v) : v \in Range(list)} = {lower(v) : v \in occurring}
        /\ \A i, j \in 1..Len(list) : i < j => lower(list[i]) # lower(list[j])
        /\ \A i, j \in 1..Len(list) : i < j => ~StrLess(lower(list[j]), lower(list[i]))

\* C9: for every text and vocabulary the list extract_skills returns holds
\* the vocabulary entries that occur in the text whatever the case, no two
\* entries that are equal when lowercased, in ascending order of the
\* lowercase forms.
C9_SkillsUniqueByLowercase ==
    pc = "skilled" =>
        /\ ExactUniqueSorted(output.app1, input.text, input.skills_db)
        /\ ExactUniqueSorted(output.nlp, input.text, SKILLS_DB)

-----------------------------------------------------------------------------
(* find_section_block on one text and one keyword list *)

MaxBlockLines == 3

\* the keyword lists parse_education and build_structured_data pass
SectionKeywordGroups ==
    { {"education", "academics", "academic details"},
      {"experience", "work experience", "professional experience"},
      {"certifications", "certification"},
      {"extra curricular", "extracurricular", "activities"},
      {"achievements", "accomplishments"},
      {"publications", "research", "research publications"} }

BlockVocabulary ==
    {"education", "Experience:", "SKILLS", "bsc 2020", "experience", "Note: x",
     " achievements "}

InitBlock ==
    /\ WebIdle
    /\ input \in [text : TextsOf(BlockVocabulary, MaxBlockLines),
                  keywords : SectionKeywordGroups]
    /\ output = ""
    /\ pc = "block"

BlockCall ==
    /\ pc = "block"
    /\ output' = find_section_block(input.text, input.keywords)
    /\ pc' = "blocked"
    /\ UNCHANGED <<input, reqs, files, served>>

NextBlock == BlockCall

SpecBlock == InitBlock /\ [][NextBlock]_vars

TrimmedLower(line) == lower(StripChars(line, SpaceSet))

\* a line that is a keyword of some section, or one and a colon
IsKnownSectionHeading(line) ==
    \E g \in SectionKeywordGroups : \E kw \in g :
        TrimmedLower(line) = kw \/ TrimmedLower(line) = kw \o ":"

\* an all-uppercase line of at most 5 words, or words and a colon with
\* nothing after the colon
IsGenericHeading(line) ==
    LET l == StripChars(line, SpaceSet)
    IN  \/ /\ CharsOf(l) \cap UpperSet # {}
           /\ CharsOf(l) \cap LowerSet = {}
           /\ Len(split(l)) <= 5
        \/ /\ Len(l) >= 2
           /\ Ch(l, Len(l)) = ":"
           /\ CharsOf(SubSeq(l, 1, Len(l) - 1)) \subseteq AlphaSet \cup {" "}

\* C13: find_section_block returns the (trimmed) lines after the first
\* heading line of the section up to, and without, the first following line
\* that is a known section heading or a generic heading; "" without heading.
C13_BlockEndsAtNextHeading ==
    pc = "blocked" =>
        LET lines == splitlines(input.text)
            starts == {i \in 1..Len(lines) :
                         \E kw \in input.keywords :
                            TrimmedLower(lines[i]) = kw \/ TrimmedLower(lines[i]) = kw \o ":"}
        IN  IF starts = {} THEN output = ""
            ELSE LET stops == {j \in (Min(starts) + 1)..Len(lines) :
                                 IsKnownSectionHeading(lines[j]) \/ IsGenericHeading(lines[j])}
                     last == IF stops = {} THEN Len(lines) ELSE Min(stops) - 1
                 IN  output = StripChars(
                                JoinWith("\n", SubSeq(lines, Min(starts) + 1, last)),
                                SpaceSet)


-----------------------------------------------------------------------------
(* parse_test_scores called repeatedly on the testScores dict of one record *)

MaxScoreCalls == 3

ScoreTexts ==
    {"", "gre: 300", "GRE - 320", "sat-1400 gre: 300", "toefl : 100",
     "act - 30 gmat:700", "ielts: 7", "gre 310"}

InitScores ==
    /\ WebIdle
    /\ input = <<>>
    /\ output = [k \in Range(TestScoreKeys) |-> PyStr("")]
    /\ pc = "scores"

ScoresCall(text) ==
    /\ pc = "scores"
    /\ Len(input) < MaxScoreCalls
    /\ input' = Append(input, text)
    /\ output' = parse_test_scores(text, output)
    /\ UNCHANGED <<pc, reqs, files, served>>

NextScores == \E text \in ScoreTexts : ScoresCall(text)

SpecScores == InitScores /\ [][NextScores]_vars

\* C14: a call of parse_test_scores leaves every score that is non-empty
\* before the call at the value it has, whatever the text contains.
C14_NonEmptyScoreKept ==
    [][pc = "scores" =>
         \A k \in Range(TestScoreKeys) :
            output[k] # PyStr("") => output'[k] = output[k]]_vars


-----------------------------------------------------------------------------
(* app1.find_sections: the category one line gets, for keyword tables in
   which a keyword is listed under a second category as well *)

\* SECTION_HEADERS with SECTION_HEADERS[c].append(kw)
WithKeyword(c, kw) ==
    [SECTION_HEADERS EXCEPT ![c].keywords = Append(@, kw)]

TieKeywords == {"education", "skills", "profile", "project", "experience"}

TieTables ==
    {SECTION_HEADERS} \cup
    {WithKeyword(c, kw) : c \in DOMAIN SECTION_HEADERS, kw \in TieKeywords}

TieLines == {"Education", "skills:", " profile ", "Project", "notes", "EXPERIENCE:"}

InitTie ==
    /\ WebIdle
    /\ input \in [headers : TieTables, line : TieLines]
    /\ output = ""
    /\ pc = "tie"

TieCall ==
    /\ pc = "tie"
    /\ output' = SectionOfLineIn(input.headers, input.line)
    /\ pc' = "tied"
    /\ UNCHANGED <<input, reqs, files, served>>

NextTie == TieCall

SpecTie == InitTie /\ [][NextTie]_vars

\* the categories of the table with a keyword the line matches
MatchingCategories(headers, raw_line) ==
    {c \in DOMAIN headers :
        \E k \in DOMAIN headers[c].keywords :
            lower(strip(raw_line)) \in {headers[c].keywords[k],
                                        headers[c].keywords[k] \o ":"}}

-----------------------------------------------------------------------------
(* resume_parser/extractor.py: extract_text_from_pdf, statement by statement.
   What pdfplumber and the OCR do with the file is the input: whether
   pdfplumber.open succeeds, what page.extract_text() gives for each page
   (None, a string, or an exception), and what ocr_pdf gives. *)

MaxPages == 2

\* len(joined) < 100
OcrThreshold == 100

Page49 == "Jane Doe  jane@mail.io  skills: python, sql, java"
Page50 == "education  bsc (cs) 2020 8.5 cgpa  gre: 320 ......"
Page100 == "experience  dev at acme 2021-2023, built parsers. experience  dev at acme 2021-2023, built parsers.."

PageNone == [kind |-> "none", text |-> ""]
PageRaises == [kind |-> "raise", text |-> ""]
PageText(t) == [kind |-> "text", text |-> t]

PageOutcomes ==
    {PageNone, PageRaises} \cup
    {PageText(t) : t \in {"", " \n", Page49, Page49 \o "\n", Page50, Page100}}

OcrOutcomes == {[kind |-> "text", text |-> "scanned text"],
                [kind |-> "raise", text |-> ""]}

\* t = page.extract_text() or ""
TextOrEmpty(page) == IF page.kind = "none" THEN "" ELSE page.text

NeedsOcr_at_most(joined) == Len(joined) <= OcrThreshold

\* len(joined) < 100
NeedsOcr(joined) == Len(joined) < OcrThreshold

InitPdf ==
    /\ WebIdle
    /\ input \in [opens : BOOLEAN,
                  pages : SeqsUpTo(PageOutcomes, MaxPages),
                  ocr : OcrOutcomes]
    /\ output = [text_chunks |-> <<>>, i |-> 1, caught |-> FALSE, joined |-> "",
                 ocr_called |-> FALSE, result |-> ""]
    /\ pc = "open"

\* with pdfplumber.open(path) as pdf: an exception goes to the except clause
PdfOpen ==
    /\ pc = "open"
    /\ IF input.opens
       THEN pc' = "pages" /\ UNCHANGED output
       ELSE pc' = "join" /\ output' = [output EXCEPT !.caught = TRUE]
    /\ UNCHANGED <<input, reqs, files, served>>

\* one iteration of the loop over pdf.pages
PdfPage ==
    /\ pc = "pages"
    /\ output.i <= Len(input.pages)
    /\ LET page == input.pages[output.i]
           t == TextOrEmpty(page)
       IN  IF page.kind = "raise"
           THEN pc' = "join" /\ output' = [output EXCEPT !.caught = TRUE]
           ELSE /\ pc' = pc
                /\ output' = [output EXCEPT
                                !.i = @ + 1,
                                !.text_chunks = IF strip(t) # "" THEN Append(@, t) ELSE @]
    /\ UNCHANGED <<input, reqs, files, served>>

\* the loop ends and the with block is left
PdfPagesDone ==
    /\ pc = "pages"
    /\ output.i > Len(input.pages)
    /\ pc' = "join"
    /\ UNCHANGED <<input, output, reqs, files, served>>

\* joined = "\n".join(text_chunks).strip() and the test of its length
PdfJoin ==
    /\ pc = "join"
    /\ \E joined \in {strip(JoinWith("\n", output.text_chunks))} :
          /\ output' = [output EXCEPT !.joined = joined]
          /\ pc' = IF NeedsOcr(joined) THEN "ocr" ELSE "return"
    /\ UNCHANGED <<input, reqs, files, served>>

\* joined = ocr_pdf(path); an exception of ocr_pdf leaves the function
PdfOcr ==
    /\ pc = "ocr"
    /\ IF input.ocr.kind = "raise"
       THEN pc' = "raised" /\ output' = [output EXCEPT !.ocr_called = TRUE]
       ELSE /\ pc' = "return"
            /\ output' = [output EXCEPT !.ocr_called = TRUE, !.joined = input.ocr.text]
    /\ UNCHANGED <<input, reqs, files, served>>

\* return joined
PdfReturn ==
    /\ pc = "return"
    /\ output' = [output EXCEPT !.result = output.joined]
    /\ pc' = "done"
    /\ UNCHANGED <<input, reqs, files, served>>

NextPdf == PdfOpen \/ PdfPage \/ PdfPagesDone \/ PdfJoin \/ PdfOcr \/ PdfReturn

SpecPdf == InitPdf /\ [][NextPdf]_vars

\* the text-layer reader fails: open fails, or some page's extraction does
ReaderFails ==
    ~input.opens \/ \E i \in DOMAIN input.pages : input.pages[i].kind = "raise"

\* the pages read before the reader fails
PagesRead ==
    IF ~input.opens THEN <<>>
    ELSE LET bad == {i \in DOMAIN input.pages : input.pages[i].kind = "raise"}
         IN  IF bad = {} THEN input.pages ELSE SubSeq(input.pages, 1, Min(bad) - 1)

\* the non-blank page texts read, joined by "\n" and trimmed
DigitalText ==
    LET RECURSIVE Chunks(_)
        Chunks(k) == IF k = 0 THEN <<>>
                     ELSE IF strip(PagesRead[k].text) # ""
                          THEN Append(Chunks(k - 1), PagesRead[k].text)
                          ELSE Chunks(k - 1)
    IN  strip(JoinWith("\n", Chunks(Len(PagesRead))))

\* C16 as stated: OCR is attempted only when no reader failure occurred and
\* the extracted text is shorter than 100 characters; a reader failure ends
\* the call with an exception and no OCR attempt.
C16_ReaderFailurePropagates ==
    /\ output.ocr_called => ~ReaderFails /\ Len(DigitalText) < OcrThreshold
    /\ pc = "done" => ~ReaderFails
    /\ pc \in {"ocr", "return"} => ~ReaderFails

\* C16: OCR is attempted exactly when the text read before any reader
\* failure, joined and trimmed, is shorter than 100 characters; a reader
\* failure is caught and never ends the call: the call raises only when the
\* OCR itself fails, and otherwise returns the OCR text if OCR ran and the
\* text read if not.
C16_OcrOnLowYieldReaderFailureCaught ==
    /\ output.ocr_called => Len(DigitalText) < OcrThreshold
    /\ pc \in {"done", "raised"} =>
          (output.ocr_called <=> Len(DigitalText) < OcrThreshold)
    /\ pc = "raised" => output.ocr_called /\ input.ocr.kind = "raise"
    /\ pc = "done" =>
          output.result = IF output.ocr_called THEN input.ocr.text ELSE DigitalText
    /\ ReaderFails /\ pc \in {"join", "ocr", "return", "done", "raised"} => output.caught

C16_Witness ==
    /\ pc = "done"
    /\ input.opens
    /\ input.pages = <<PageText(Page49), PageRaises>>
    /\ output.caught
    /\ output.ocr_called
    /\ output.result = "scanned text"

=============================================================================
